---- MODULE Spec2Model ----
(***************************************************************************)
(* Expression calculator (expressioncalculator.c): the read loop of main,  *)
(* the shunting-yard parser infix_to_postfix and the postfix evaluator     *)
(* evaluate_postfix with apply_op and safe_pow_ll.                         *)
(*                                                                         *)
(* A C string is a sequence of one-character strings; a token is such a    *)
(* sequence; a stack is a sequence whose last element is the top.          *)
(* TLC's integers are 32 bits wide, so long long is modelled as a two's    *)
(* complement integer of Bits bits, and the buffer sizes are scaled with   *)
(* it, keeping their order: a numeral of MAX_TOKEN_LEN-1 digits can exceed *)
(* LLONG_MAX, and a line never holds more than MAX_TOKENS tokens.          *)
(***************************************************************************)
EXTENDS Integers, Sequences, FiniteSets, TLC

\* ------------------------------------------------------------ bounds
\* Width of long long in the model.
Bits == 7
\* Size of the line buffer of main: fgets returns at most MAX_EXPR-1 characters.
MAX_EXPR == 8
\* Size of a token buffer: a numeral has at most MAX_TOKEN_LEN-1 digits.
MAX_TOKEN_LEN == 4
\* Longest line drawn from the whole alphabet.
MaxLen == 3
\* Longest well-formed expression drawn.
MaxExprLen == 5

MAX_TOKENS == MAX_EXPR

LLONG_MAX == 2^(Bits - 1) - 1
LLONG_MIN == -LLONG_MAX - 1
LongLong == LLONG_MIN..LLONG_MAX

\* ------------------------------------------------------------ characters
Digits == {"0", "1", "2", "3", "4", "5", "6", "7", "8", "9"}

isdigit(c) == c \in Digits

isspace(c) == c \in {" ", "\t", "\n", "\r"}

DigitVal(c) ==
  CASE c = "0" -> 0 [] c = "1" -> 1 [] c = "2" -> 2 [] c = "3" -> 3
    [] c = "4" -> 4 [] c = "5" -> 5 [] c = "6" -> 6 [] c = "7" -> 7
    [] c = "8" -> 8 [] c = "9" -> 9

Abs(x) == IF x < 0 THEN -x ELSE x

Min(x, y) == IF x < y THEN x ELSE y

\* ------------------------------------------------------------ stacks, tokens
cs_full(s) == Len(s) + 1 > MAX_TOKENS

cs_peek(s) == s[Len(s)]

cs_pop(s) == SubSeq(s, 1, Len(s) - 1)

ns_full(s) == Len(s) + 1 > MAX_TOKENS

tokens_full(tl) == Len(tl) >= MAX_TOKENS

\* strncpy of at most MAX_TOKEN_LEN-1 characters, then the terminator.
tokens_add(tl, s) == Append(tl, SubSeq(s, 1, Min(Len(s), MAX_TOKEN_LEN - 1)))

\* ------------------------------------------------------------ operators
is_operator(c) == c \in {"+", "-", "*", "/", "%", "^", "u"}

\* precedence with * / % ranked like + and -.
precedence_flat(op) ==
  CASE op = "u" -> 4
    [] op = "^" -> 3
    [] op \in {"+", "-", "*", "/", "%"} -> 1
    [] OTHER -> 0

precedence(op) ==
  CASE op = "u" -> 4
    [] op = "^" -> 3
    [] op \in {"*", "/", "%"} -> 2
    [] op \in {"+", "-"} -> 1
    [] OTHER -> 0

\* is_right_assoc without '^'.
is_right_assoc_unary_only(op) == op = "u"

is_right_assoc(op) == op = "^" \/ op = "u"

\* ------------------------------------------------------------ parser loops
\* Number of digits of the digit run of e that starts at j.
RECURSIVE DigitRun(_, _)
DigitRun(e, j) ==
  IF j <= Len(e) /\ isdigit(e[j]) THEN 1 + DigitRun(e, j + 1) ELSE 0

\* The ')' loop without the matched flag: an emptied stack counts as a match.
RECURSIVE PopToParen_unflagged(_, _)
PopToParen_unflagged(s, out) ==
  IF s = << >>
    THEN [matched |-> TRUE, full |-> FALSE, ops |-> s, out |-> out]
    ELSE LET top == cs_peek(s)
             rest == cs_pop(s)
         IN  IF top = "("
               THEN [matched |-> TRUE, full |-> FALSE, ops |-> rest, out |-> out]
               ELSE IF tokens_full(out)
                 THEN [matched |-> FALSE, full |-> TRUE, ops |-> rest, out |-> out]
                 ELSE PopToParen_unflagged(rest, tokens_add(out, <<top>>))

\* The loop of the ')' branch: pop and emit until '(' is popped.
RECURSIVE PopToParen(_, _)
PopToParen(s, out) ==
  IF s = << >>
    THEN [matched |-> FALSE, full |-> FALSE, ops |-> s, out |-> out]
    ELSE LET top == cs_peek(s)
             rest == cs_pop(s)
         IN  IF top = "("
               THEN [matched |-> TRUE, full |-> FALSE, ops |-> rest, out |-> out]
               ELSE IF tokens_full(out)
                 THEN [matched |-> FALSE, full |-> TRUE, ops |-> rest, out |-> out]
                 ELSE PopToParen(rest, tokens_add(out, <<top>>))

\* The loop of the operator branch: pop and emit while the top is an operator
\* of higher precedence, or of equal precedence and op is left-associative.
RECURSIVE PopHigher(_, _, _)
PopHigher(s, out, op) ==
  IF s # << >> /\ is_operator(cs_peek(s))
    THEN LET top == cs_peek(s)
             ptop == precedence(top)
             popr == precedence(op)
         IN  IF (ptop > popr) \/ (ptop = popr /\ ~is_right_assoc(op))
               THEN IF tokens_full(out)
                      THEN [full |-> TRUE, ops |-> cs_pop(s), out |-> out]
                      ELSE PopHigher(cs_pop(s), tokens_add(out, <<top>>), op)
               ELSE [full |-> FALSE, ops |-> s, out |-> out]
    ELSE [full |-> FALSE, ops |-> s, out |-> out]

\* The loop that drains the operator stack at the end of the input.
RECURSIVE DrainOps(_, _)
DrainOps(s, out) ==
  IF s = << >>
    THEN [err |-> "", ops |-> s, out |-> out]
    ELSE LET top == cs_peek(s)
         IN  IF top = "(" \/ top = ")"
               THEN [err |-> "Mismatched parentheses", ops |-> cs_pop(s), out |-> out]
               ELSE IF tokens_full(out)
                 THEN [err |-> "Too many tokens", ops |-> cs_pop(s), out |-> out]
                 ELSE DrainOps(cs_pop(s), tokens_add(out, <<top>>))

\* ------------------------------------------------------------ arithmetic
\* What signed overflow, llabs(LLONG_MIN) and LLONG_MIN / -1 do is undefined in
\* C: the build either wraps in two's complement or traps (SIGFPE, -ftrapv).
UBOutcomes == {"wrap", "trap"}

Wrap(x) == ((x - LLONG_MIN) % (2^Bits)) + LLONG_MIN

\* The long long that holds the mathematical value x.
Signed(x, ub) ==
  IF x \in LongLong THEN [trap |-> FALSE, v |-> x]
  ELSE IF ub = "wrap" THEN [trap |-> FALSE, v |-> Wrap(x)]
  ELSE [trap |-> TRUE, v |-> 0]

\* C's / and %: the quotient truncates toward zero.
c_div(a, b) ==
  LET q == Abs(a) \div Abs(b) IN IF (a < 0) # (b < 0) THEN -q ELSE q

c_rem(a, b) == a - b * c_div(a, b)

llabs(x, ub) == Signed(Abs(x), ub)

\* The while loop of safe_pow_ll, one call per iteration.
RECURSIVE pow_loop(_, _, _, _)
pow_loop(base, exp, result, ub) ==
  IF exp = 0 THEN [ret |-> TRUE, trap |-> FALSE, out |-> result]
  ELSE
    LET Trap == [ret |-> FALSE, trap |-> TRUE, out |-> 0]
        Fail == [ret |-> FALSE, trap |-> FALSE, out |-> 0]
        ar == llabs(result, ub)
        ab == llabs(base, ub)
        exp2 == exp \div 2
        Square(r) ==
          IF exp2 = 0 THEN pow_loop(base, exp2, r, ub)
          ELSE IF ab.trap THEN Trap
          ELSE IF ab.v > 0 /\ ab.v > c_div(LLONG_MAX, ab.v) THEN Fail
          ELSE LET sq == Signed(base * base, ub)
               IN  IF sq.trap THEN Trap ELSE pow_loop(sq.v, exp2, r, ub)
    IN  IF exp % 2 = 1
          THEN IF base # 0 /\ (ar.trap \/ ab.trap) THEN Trap
               ELSE IF base # 0 /\ ar.v > c_div(LLONG_MAX, ab.v) THEN Fail
               ELSE LET m == Signed(result * base, ub)
                    IN  IF m.trap THEN Trap ELSE Square(m.v)
          ELSE Square(result)

safe_pow_ll(base, exp, ub) ==
  IF exp < 0 THEN [ret |-> FALSE, trap |-> FALSE, out |-> 0]
  ELSE pow_loop(base, exp, 1, ub)

\* The switch of apply_op on the operands a (left) and b (right).
BinaryOp(op, a, b, ub) ==
  LET Val(s) == [trap |-> s.trap, err |-> "", v |-> s.v]
      Err(m) == [trap |-> FALSE, err |-> m, v |-> 0]
  IN  CASE op = "+" -> Val(Signed(a + b, ub))
        [] op = "-" -> Val(Signed(a - b, ub))
        [] op = "*" -> Val(Signed(a * b, ub))
        [] op = "/" -> IF b = 0 THEN Err("Division by zero")
                       ELSE Val(Signed(c_div(a, b), ub))
        [] op = "%" -> IF b = 0 THEN Err("Modulo by zero")
                       ELSE IF a = LLONG_MIN /\ b = -1
                         THEN [trap |-> ub = "trap", err |-> "", v |-> 0]
                         ELSE Val(Signed(c_rem(a, b), ub))
        [] op = "^" -> LET p == safe_pow_ll(a, b, ub)
                       IN  IF p.trap THEN [trap |-> TRUE, err |-> "", v |-> 0]
                           ELSE IF ~p.ret
                             THEN Err("Invalid or overflow in exponentiation")
                             ELSE [trap |-> FALSE, err |-> "", v |-> p.out]
        [] OTHER -> Err("Unknown operator in evaluation")

apply_op(op, s, ub) ==
  LET Fail(st, m) == [ret |-> FALSE, trap |-> FALSE, stk |-> st, err |-> m]
      Trap(st) == [ret |-> FALSE, trap |-> TRUE, stk |-> st, err |-> ""]
      Done(st) == [ret |-> TRUE, trap |-> FALSE, stk |-> st, err |-> ""]
  IN  IF op = "u"
        THEN IF Len(s) < 1
               THEN Fail(s, "Not enough operands for unary minus")
               ELSE LET a == s[Len(s)]
                        s1 == SubSeq(s, 1, Len(s) - 1)
                        n == Signed(-a, ub)
                    IN  IF n.trap THEN Trap(s1)
                        ELSE IF ns_full(s1) THEN Fail(s1, "Value stack overflow")
                        ELSE Done(Append(s1, n.v))
        ELSE IF Len(s) < 2
          THEN Fail(s, "Not enough operands for binary operator")
          ELSE LET b == s[Len(s)]
                   a == s[Len(s) - 1]
                   s2 == SubSeq(s, 1, Len(s) - 2)
                   r == BinaryOp(op, a, b, ub)
               IN  IF r.trap THEN Trap(s2)
                   ELSE IF r.err # "" THEN Fail(s2, r.err)
                   ELSE IF ns_full(s2) THEN Fail(s2, "Value stack overflow")
                   ELSE Done(Append(s2, r.v))

\* The decimal value of the digits t[from..to].
RECURSIVE DecValue(_, _, _)
DecValue(t, from, to) ==
  IF to < from THEN 0 ELSE 10 * DecValue(t, from, to - 1) + DigitVal(t[to])

RECURSIVE SpaceRun(_, _)
SpaceRun(t, j) ==
  IF j <= Len(t) /\ isspace(t[j]) THEN 1 + SpaceRun(t, j + 1) ELSE 0

\* strtoll whose caller does not look at errno: the clamped value passes.
strtoll_unchecked(t) ==
  LET n == DigitRun(t, 1)
      x == DecValue(t, 1, n)
  IN  [val |-> IF x > LLONG_MAX THEN LLONG_MAX ELSE x, erange |-> FALSE,
       endptr |-> n]

\* strtoll(t, &endptr, 10): leading white space, an optional sign, digits.
\* endptr is the number of characters consumed (0 when there is no digit);
\* a value out of range sets errno and is clamped.
strtoll(t) ==
  LET sp == SpaceRun(t, 1)
      signed == sp + 1 <= Len(t) /\ t[sp + 1] \in {"+", "-"}
      first == sp + (IF signed THEN 2 ELSE 1)
      n == DigitRun(t, first)
      mag == DecValue(t, first, first + n - 1)
      x == IF signed /\ t[sp + 1] = "-" THEN -mag ELSE mag
  IN  IF n = 0 THEN [val |-> 0, erange |-> FALSE, endptr |-> 0]
      ELSE IF x > LLONG_MAX
        THEN [val |-> LLONG_MAX, erange |-> TRUE, endptr |-> first + n - 1]
      ELSE IF x < LLONG_MIN
        THEN [val |-> LLONG_MIN, erange |-> TRUE, endptr |-> first + n - 1]
      ELSE [val |-> x, erange |-> FALSE, endptr |-> first + n - 1]

\* print_postfix: the tokens, unary minus shown as '~'.
print_postfix(tl) ==
  [j \in 1..Len(tl) |-> IF tl[j] = <<"u">> THEN <<"~">> ELSE tl[j]]

\* ------------------------------------------------------------ input lines
ExprDigits == {"0", "2", "3"}

BinOps == {"+", "-", "*", "/", "%", "^"}

Alphabet == ExprDigits \cup BinOps \cup {"(", ")", " ", "u", "x"}

\* Every line of at most MaxLen characters of the alphabet.
ShortLines == UNION {[1..n -> Alphabet] : n \in 0..MaxLen}

\* The well-formed expressions of exactly n characters: numerals of one or two
\* digits, unary minus, the binary operators and parentheses.
RECURSIVE WellFormed(_)
WellFormed(n) ==
  IF n <= 0 THEN {}
  ELSE (IF n <= 2 THEN [1..n -> ExprDigits] ELSE {})
       \cup {<<"(">> \o w \o <<")">> : w \in WellFormed(n - 2)}
       \cup {<<"-">> \o w : w \in WellFormed(n - 1)}
       \cup UNION {{a \o <<o>> \o b : a \in WellFormed(m), o \in BinOps,
                                     b \in WellFormed(n - 1 - m)} : m \in 1..(n - 2)}

ExprLines == UNION {WellFormed(n) : n \in 1..MaxExprLen}

\* Digit runs up to the length the parser refuses.
NumLines == UNION {[1..n -> ExprDigits] : n \in 1..MAX_TOKEN_LEN}

\* The lines of the worked examples.
ExampleLines ==
  { <<"2", "+", "3", "*", "4">>, <<"2", "^", "3", "^", "2">>,
    <<"-", "2", "^", "2">>, <<"5", "/", "0">>, <<"5", "%", "0">>,
    <<"(", "1", "+", "2">>, <<"1", "+", "2", ")">>, <<"*", "5">>,
    <<"5", "+">>, <<"2", " ", "+", " ", "+", " ", "3">>,
    <<"2", "^", "1", "0", "0">>, <<"8", "-", "5", "-", "2">> }

\* What fgets can return: at most MAX_EXPR-1 characters.
Lines ==
  {l \in ShortLines \cup ExprLines \cup NumLines \cup ExampleLines :
     Len(l) <= MAX_EXPR - 1}

allspace(l) == \A j \in 1..Len(l) : isspace(l[j])

\* ------------------------------------------------------------ state
VARIABLES phase, expr, i, expect_operand, ops, postfix, err_msg, stk, ti, value

vars == <<phase, expr, i, expect_operand, ops, postfix, err_msg, stk, ti, value>>

Init ==
  /\ phase = "read"
  /\ expr = << >>
  /\ i = 0
  /\ expect_operand = TRUE
  /\ ops = << >>
  /\ postfix = << >>
  /\ err_msg = ""
  /\ stk = << >>
  /\ ti = 0
  /\ value = 0

\* main: fgets a line; an all-space line ends the loop, any other line enters
\* infix_to_postfix (cs_init, tokens_init, i = 0, expect_operand = 1).
ReadLine ==
  /\ phase = "read"
  /\ \E l \in Lines :
       /\ expr' = l
       /\ phase' = IF allspace(l) THEN "quit" ELSE "parse"
  /\ UNCHANGED <<i, expect_operand, ops, postfix, err_msg, stk, ti, value>>

\* One iteration of the while loop of infix_to_postfix on the character c.
ParseChar(c) ==
  LET Go(ni, ne, nops, nout) ==
        [phase |-> "parse", i |-> ni, expect_operand |-> ne, ops |-> nops,
         postfix |-> nout, err_msg |-> err_msg]
      Fail(ni, nops, nout, m) ==
        [phase |-> "parse_error", i |-> ni, expect_operand |-> expect_operand,
         ops |-> nops, postfix |-> nout, err_msg |-> m]
  IN  IF isspace(c) THEN Go(i + 1, expect_operand, ops, postfix)
      ELSE IF isdigit(c)
        THEN LET n == DigitRun(expr, i + 1)
             IN  IF n >= MAX_TOKEN_LEN
                   THEN Fail(i + MAX_TOKEN_LEN - 1, ops, postfix, "Number token too long")
                   ELSE IF tokens_full(postfix)
                     THEN Fail(i + n, ops, postfix, "Too many tokens")
                     ELSE Go(i + n, FALSE, ops,
                             tokens_add(postfix, SubSeq(expr, i + 1, i + n)))
      ELSE IF c = "("
        THEN IF cs_full(ops) THEN Fail(i, ops, postfix, "Operator stack overflow")
             ELSE Go(i + 1, TRUE, Append(ops, "("), postfix)
      ELSE IF c = ")"
        THEN LET p == PopToParen(ops, postfix)
             IN  IF p.full THEN Fail(i, p.ops, p.out, "Too many tokens")
                 ELSE IF ~p.matched
                   THEN Fail(i, p.ops, p.out, "Mismatched parentheses")
                   ELSE Go(i + 1, FALSE, p.ops, p.out)
      ELSE IF is_operator(c)
        THEN LET op == IF c = "-" /\ expect_operand THEN "u" ELSE c
             IN  IF ~(c = "-" /\ expect_operand) /\ expect_operand /\ op # "u"
                   THEN Fail(i, ops, postfix, "Unexpected operator")
                   ELSE LET p == PopHigher(ops, postfix, op)
                        IN  IF p.full THEN Fail(i, p.ops, p.out, "Too many tokens")
                            ELSE IF cs_full(p.ops)
                              THEN Fail(i, p.ops, p.out, "Operator stack overflow")
                              ELSE Go(i + 1, op # "u", Append(p.ops, op), p.out)
      ELSE Fail(i, ops, postfix, "Invalid character: '" \o c \o "'")

ParseStep ==
  /\ phase = "parse"
  /\ i < Len(expr)
  /\ LET s == ParseChar(expr[i + 1])
     IN  /\ phase' = s.phase
         /\ i' = s.i
         /\ expect_operand' = s.expect_operand
         /\ ops' = s.ops
         /\ postfix' = s.postfix
         /\ err_msg' = s.err_msg
  /\ UNCHANGED <<expr, stk, ti, value>>

\* The end of infix_to_postfix: drain the operator stack, then the check of
\* expect_operand; on success main calls evaluate_postfix (ns_init, i = 0).
ParseEnd ==
  /\ phase = "parse"
  /\ i >= Len(expr)
  /\ LET d == DrainOps(ops, postfix)
     IN  /\ ops' = d.ops
         /\ postfix' = d.out
         /\ IF d.err # ""
              THEN phase' = "parse_error" /\ err_msg' = d.err
              ELSE IF expect_operand
                THEN phase' = "parse_error"
                     /\ err_msg' = "Expression ends unexpectedly"
                ELSE phase' = "eval" /\ err_msg' = err_msg
  /\ UNCHANGED <<expr, i, expect_operand, stk, ti, value>>

\* One iteration of the for loop of evaluate_postfix.
EvalStep ==
  /\ phase = "eval"
  /\ ti < Len(postfix)
  /\ LET t == postfix[ti + 1]
     IN  IF Len(t) = 1 /\ is_operator(t[1])
           THEN \E ub \in UBOutcomes :
                  LET r == apply_op(t[1], stk, ub)
                  IN  /\ stk' = r.stk
                      /\ IF r.trap
                           THEN phase' = "trap" /\ UNCHANGED <<ti, err_msg>>
                           ELSE IF ~r.ret
                             THEN /\ phase' = "eval_error"
                                  /\ err_msg' = r.err
                                  /\ UNCHANGED ti
                             ELSE /\ ti' = ti + 1
                                  /\ UNCHANGED <<phase, err_msg>>
           ELSE LET n == strtoll(t)
                IN  IF n.erange \/ n.endptr = 0 \/ n.endptr # Len(t)
                      THEN /\ phase' = "eval_error"
                           /\ err_msg' = "Invalid number in postfix"
                           /\ UNCHANGED <<stk, ti>>
                      ELSE IF ns_full(stk)
                        THEN /\ phase' = "eval_error"
                             /\ err_msg' = "Value stack overflow"
                             /\ UNCHANGED <<stk, ti>>
                        ELSE /\ stk' = Append(stk, n.val)
                             /\ ti' = ti + 1
                             /\ UNCHANGED <<phase, err_msg>>
  /\ UNCHANGED <<expr, i, expect_operand, ops, postfix, value>>

\* The end of evaluate_postfix: exactly one value must be left.
EvalEnd ==
  /\ phase = "eval"
  /\ ti >= Len(postfix)
  /\ IF Len(stk) # 1
       THEN /\ phase' = "eval_error"
            /\ err_msg' = "Extra operands or insufficient operators"
            /\ UNCHANGED <<stk, value>>
       ELSE /\ phase' = "result"
            /\ value' = stk[1]
            /\ stk' = << >>
            /\ UNCHANGED err_msg
  /\ UNCHANGED <<expr, i, expect_operand, ops, postfix, ti>>

\* main prints the error or the result and goes on to the next line, whose
\* buffers are fresh.
Report ==
  /\ phase \in {"parse_error", "eval_error", "result"}
  /\ phase' = "read"
  /\ expr' = << >>
  /\ i' = 0
  /\ expect_operand' = TRUE
  /\ ops' = << >>
  /\ postfix' = << >>
  /\ err_msg' = ""
  /\ stk' = << >>
  /\ ti' = 0
  /\ value' = 0

Next == ReadLine \/ ParseStep \/ ParseEnd \/ EvalStep \/ EvalEnd \/ Report

Spec == Init /\ [][Next]_vars

\* apply_op on its own: evaluate_postfix about to apply one binary operator to
\* the operands a (pushed first) and b, every pair of long long values.
InitApply ==
  /\ phase = "eval"
  /\ expr = << >>
  /\ i = 0
  /\ expect_operand = FALSE
  /\ ops = << >>
  /\ \E o \in {"/", "%", "^"} : postfix = << <<o>> >>
  /\ err_msg = ""
  /\ \E a \in LongLong, b \in LongLong : stk = <<a, b>>
  /\ ti = 0
  /\ value = 0

NextApply == EvalStep \/ EvalEnd

SpecApply == InitApply /\ [][NextApply]_vars

\* ------------------------------------------------------------ properties
\* infix_to_postfix returned 1 on the line.
Parsed == phase \in {"eval", "eval_error", "result", "trap"}

\* The line has been processed to its end.
Finished == phase \in {"parse_error", "eval_error", "result", "trap"}

IsOpToken(t) == Len(t) = 1 /\ is_operator(t[1])

IsNumeral(t) == Len(t) >= 1 /\ \A j \in 1..Len(t) : isdigit(t[j])

\* Depth of the operand stack after replaying tl[j..] from depth d with the
\* arities 1 (unary minus) and 2 (the others); -1 when the replay underflows.
RECURSIVE ReplayDepth(_, _, _)
ReplayDepth(tl, j, d) ==
  IF j > Len(tl) THEN d
  ELSE IF tl[j] = <<"u">>
    THEN IF d < 1 THEN -1 ELSE ReplayDepth(tl, j + 1, d)
  ELSE IF IsOpToken(tl[j])
    THEN IF d < 2 THEN -1 ELSE ReplayDepth(tl, j + 1, d - 1)
  ELSE ReplayDepth(tl, j + 1, d + 1)

\* C1: every postfix sequence of a successful parse replays without underflow
\* and leaves exactly one value, so the evaluator never reports an arity error.
C1_PostfixValid ==
  Parsed =>
    /\ ReplayDepth(postfix, 1, 0) = 1
    /\ err_msg \notin {"Not enough operands for unary minus",
                       "Not enough operands for binary operator",
                       "Extra operands or insufficient operators"}

\* The reference evaluator of C2: recursive descent over the line, in the
\* mathematical integers; ok is false when the line is not an expression of
\* numerals, + - * / and parentheses, when it divides by zero, or when a
\* numeral or an intermediate value does not fit a long long.
RefQuot(a, b) ==
  LET f == a \div b
  IN  IF f * b # a /\ ((a < 0) # (b < 0)) THEN f + 1 ELSE f

RefBad == [ok |-> FALSE, v |-> 0, p |-> 0]

RefBin(o, x, y) ==
  LET v == CASE o = "+" -> x + y
             [] o = "-" -> x - y
             [] o = "*" -> x * y
             [] o = "/" -> IF y = 0 THEN 0 ELSE RefQuot(x, y)
             [] o = "%" -> IF y = 0 THEN 0 ELSE x - y * RefQuot(x, y)
  IN  [ok |-> ~(o \in {"/", "%"} /\ y = 0) /\ v \in LongLong, v |-> v]

RECURSIVE RefExpr(_, _), RefExprTail(_, _, _), RefTerm(_, _),
          RefTermTail(_, _, _), RefFactor(_, _)
RefFactor(e, p) ==
  LET q == p + SpaceRun(e, p)
  IN  IF q > Len(e) THEN RefBad
      ELSE IF isdigit(e[q])
        THEN LET n == DigitRun(e, q)
                 v == DecValue(e, q, q + n - 1)
             IN  [ok |-> n < MAX_TOKEN_LEN /\ v <= LLONG_MAX, v |-> v, p |-> q + n]
      ELSE IF e[q] = "("
        THEN LET r == RefExpr(e, q + 1)
                 c == r.p + SpaceRun(e, r.p)
             IN  IF r.ok /\ c <= Len(e) /\ e[c] = ")"
                   THEN [ok |-> TRUE, v |-> r.v, p |-> c + 1]
                   ELSE RefBad
      ELSE RefBad

RefTermTail(e, p, acc) ==
  LET q == p + SpaceRun(e, p)
  IN  IF q <= Len(e) /\ e[q] \in {"*", "/"}
        THEN LET f == RefFactor(e, q + 1)
                 r == RefBin(e[q], acc, f.v)
             IN  IF f.ok /\ r.ok THEN RefTermTail(e, f.p, r.v) ELSE RefBad
        ELSE [ok |-> TRUE, v |-> acc, p |-> q]

RefTerm(e, p) ==
  LET f == RefFactor(e, p) IN IF f.ok THEN RefTermTail(e, f.p, f.v) ELSE RefBad

RefExprTail(e, p, acc) ==
  LET q == p + SpaceRun(e, p)
  IN  IF q <= Len(e) /\ e[q] \in {"+", "-"}
        THEN LET t == RefTerm(e, q + 1)
                 r == RefBin(e[q], acc, t.v)
             IN  IF t.ok /\ r.ok THEN RefExprTail(e, t.p, r.v) ELSE RefBad
        ELSE [ok |-> TRUE, v |-> acc, p |-> q]

RefExpr(e, p) ==
  LET t == RefTerm(e, p) IN IF t.ok THEN RefExprTail(e, t.p, t.v) ELSE RefBad

Reference(e) ==
  LET r == RefExpr(e, 1)
  IN  [ok |-> r.ok /\ r.p > Len(e), v |-> r.v]

Accepted == Digits \cup BinOps \cup {"(", ")", " ", "\t", "\n", "\r"}

C3_OnlyAcceptedChars ==
  \A j \in 1..Len(expr) :
    (/\ phase \notin {"read", "parse", "quit"}
     /\ expr[j] \notin Accepted
     /\ \A m \in 1..(j - 1) : expr[m] \in Accepted)
    => /\ phase = "parse_error"
       /\ i + 1 <= j
       /\ i + 1 = j => err_msg = "Invalid character: '" \o expr[j] \o "'"

\* a^n in the integers, or over when its magnitude exceeds LLONG_MAX.
RECURSIVE BoundedPow(_, _)
BoundedPow(a, n) ==
  IF n = 0 THEN [over |-> FALSE, v |-> 1]
  ELSE LET r == BoundedPow(a, n - 1)
       IN  IF r.over THEN r
           ELSE IF Abs(r.v * a) > LLONG_MAX THEN [over |-> TRUE, v |-> 0]
           ELSE [over |-> FALSE, v |-> r.v * a]

\* The positions of the characters of the line that are not digits.
NonDigits == {j \in 1..Len(expr) : ~isdigit(expr[j])}

\* The line is numeral o1 numeral o2 numeral, the numerals in range.
IsChain(p1, p2) ==
  /\ NonDigits = {p1, p2}
  /\ 1 < p1 /\ p1 + 1 < p2 /\ p2 < Len(expr)
  /\ expr[p1] \in BinOps /\ expr[p2] \in BinOps
  /\ \A r \in {<<1, p1 - 1>>, <<p1 + 1, p2 - 1>>, <<p2 + 1, Len(expr)>>} :
       /\ r[2] - r[1] + 1 < MAX_TOKEN_LEN
       /\ DecValue(expr, r[1], r[2]) <= LLONG_MAX

\* C4: a chain a o1 b o2 c of left-associative operators of one precedence is
\* parsed and evaluated as (a o1 b) o2 c, and a ^ b ^ c as a ^ (b ^ c).
C4_Grouping ==
  \A p1 \in 1..Len(expr), p2 \in 1..Len(expr) :
    IsChain(p1, p2) =>
      LET o1 == expr[p1]
          o2 == expr[p2]
          A == SubSeq(expr, 1, p1 - 1)
          B == SubSeq(expr, p1 + 1, p2 - 1)
          C == SubSeq(expr, p2 + 1, Len(expr))
          a == DecValue(A, 1, Len(A))
          b == DecValue(B, 1, Len(B))
          c == DecValue(C, 1, Len(C))
          left == RefBin(o1, a, b)
          whole == RefBin(o2, left.v, c)
          inner == BoundedPow(b, c)
          outer == BoundedPow(a, inner.v)
      IN  /\ ({o1, o2} \subseteq {"+", "-"} \/ {o1, o2} \subseteq {"*", "/", "%"}) =>
               /\ Parsed => postfix = <<A, B, <<o1>>, C, <<o2>>>>
               /\ (Finished /\ left.ok /\ whole.ok) =>
                     (phase = "result" /\ value = whole.v)
          /\ (o1 = "^" /\ o2 = "^") =>
               /\ Parsed => postfix = <<A, B, C, <<"^">>, <<"^">>>>
               /\ (Finished /\ ~inner.over /\ ~outer.over) =>
                     (phase = "result" /\ value = outer.v)
               /\ (Finished /\ (inner.over \/ outer.over)) =>
                     (phase = "eval_error"
                      /\ err_msg = "Invalid or overflow in exponentiation")

C4_Witness ==
  /\ phase = "result"
  /\ expr = <<"2", "^", "3", "^", "0">>
  /\ postfix = << <<"2">>, <<"3">>, <<"0">>, <<"^">>, <<"^">> >>
  /\ value = 2

\* C5: a '-' met while an operand is expected is pushed as unary minus and the
\* parser goes on expecting an operand; "-2^2" gives the postfix 2 ~ 2 ^ and 4.
C5_UnaryMinus ==
  /\ (phase = "parse" /\ i > 0 /\ expr[i] = "-" /\ ops # << >>
        /\ cs_peek(ops) = "u") => expect_operand
  /\ (Finished /\ expr = <<"-", "2", "^", "2">>) =>
        /\ phase = "result"
        /\ print_postfix(postfix) = << <<"2">>, <<"~">>, <<"2">>, <<"^">> >>
        /\ value = 4

\* C6 as stated: "Invalid number in postfix" never follows a successful parse.
C6_NoInvalidNumber ==
  ~(phase = "eval_error" /\ err_msg = "Invalid number in postfix")

\* C6 as amended: every token of a parsed line is an operator or a digit run
\* shorter than MAX_TOKEN_LEN; "Invalid number in postfix" is reported exactly
\* for a digit run whose value exceeds LLONG_MAX, and every other digit run is
\* pushed with its decimal value.
C6_NumeralsInRange ==
  /\ Parsed =>
       \A j \in 1..Len(postfix) :
         \/ IsOpToken(postfix[j])
         \/ IsNumeral(postfix[j]) /\ Len(postfix[j]) < MAX_TOKEN_LEN
  /\ (phase = "eval_error" /\ err_msg = "Invalid number in postfix") =>
       /\ IsNumeral(postfix[ti + 1])
       /\ DecValue(postfix[ti + 1], 1, Len(postfix[ti + 1])) > LLONG_MAX
  /\ (phase = "eval_error" /\ err_msg # "Invalid number in postfix") =>
       ti = Len(postfix) \/ IsOpToken(postfix[ti + 1])
  /\ (phase = "eval" /\ ti > 0 /\ IsNumeral(postfix[ti])) =>
       /\ stk # << >>
       /\ stk[Len(stk)] = DecValue(postfix[ti], 1, Len(postfix[ti]))
       /\ stk[Len(stk)] <= LLONG_MAX

C6_Witness ==
  /\ phase = "eval_error"
  /\ err_msg = "Invalid number in postfix"
  /\ expr = <<"3", "3", "3">>
  /\ postfix = << <<"3", "3", "3">> >>

\* evaluate_postfix is about to apply the binary operator o to a and b.
Applying(o) ==
  /\ phase = "eval" /\ ti = 0 /\ Len(stk) = 2
  /\ postfix = << <<o>> >>

\* C7: a ^ b fails for b < 0 and when the magnitude of a^b exceeds LLONG_MAX,
\* and pushes exactly a^b otherwise; it never pushes a wrapped value. Stated
\* of the builds that do not trap.
C7_PowStep ==
  (Applying("^") /\ phase' # "trap") =>
    LET a == stk[1]
        b == stk[2]
        Failed == /\ phase' = "eval_error"
                  /\ err_msg' = "Invalid or overflow in exponentiation"
    IN  IF b < 0 THEN Failed
        ELSE IF BoundedPow(a, b).over THEN Failed
        ELSE phase' = "eval" /\ ti' = 1 /\ stk' = <<BoundedPow(a, b).v>>

C7_PowChecked == [][C7_PowStep]_vars

\* C8: / and % fail on a zero divisor and otherwise push the quotient truncated
\* toward zero, or a - b*trunc(a/b), which is a long long. Stated of the builds
\* that do not trap.
C8_DivStep ==
  \A o \in {"/", "%"} :
    (Applying(o) /\ phase' # "trap") =>
      LET a == stk[1]
          b == stk[2]
      IN  IF b = 0
            THEN /\ phase' = "eval_error"
                 /\ err_msg' = IF o = "/" THEN "Division by zero" ELSE "Modulo by zero"
            ELSE /\ phase' = "eval" /\ ti' = 1
                 /\ stk' = <<IF o = "/" THEN RefQuot(a, b) ELSE a - b * RefQuot(a, b)>>
                 /\ stk'[1] \in LongLong

C8_DivChecked == [][C8_DivStep]_vars

\* Nesting depth after e[j..] from depth d; -1 once a ')' has no '('.
RECURSIVE ParenDepth(_, _, _)
ParenDepth(e, j, d) ==
  IF j > Len(e) THEN d
  ELSE IF e[j] = "(" THEN ParenDepth(e, j + 1, d + 1)
  ELSE IF e[j] = ")" THEN (IF d = 0 THEN -1 ELSE ParenDepth(e, j + 1, d - 1))
  ELSE ParenDepth(e, j + 1, d)

HasOpen(s) == \E j \in 1..Len(s) : s[j] = "("

LastOpen(s) == CHOOSE j \in 1..Len(s) : s[j] = "(" /\ \A m \in (j + 1)..Len(s) : s[m] # "("

\* The tokens of s[j+1..], the top first.
PopOrder(s, j) == [m \in 1..(Len(s) - j) |-> <<s[Len(s) + 1 - m]>>]

\* C9: a ')' without a '(' on the operator stack and a '(' left at the end of
\* the input fail with "Mismatched parentheses"; a matched ')' emits the
\* operators above the '(' in pop order and drops the '('; a parse succeeds
\* only on balanced parentheses and emits no parenthesis.
C9_ParenStep ==
  /\ (phase = "parse" /\ i < Len(expr) /\ expr[i + 1] = ")" /\ ~HasOpen(ops)) =>
        (phase' = "parse_error" /\ err_msg' = "Mismatched parentheses")
  /\ (phase = "parse" /\ i < Len(expr) /\ expr[i + 1] = ")" /\ HasOpen(ops)) =>
        /\ phase' = "parse"
        /\ ops' = SubSeq(ops, 1, LastOpen(ops) - 1)
        /\ postfix' = postfix \o PopOrder(ops, LastOpen(ops))
  /\ (phase = "parse" /\ i >= Len(expr) /\ HasOpen(ops)) =>
        (phase' = "parse_error" /\ err_msg' = "Mismatched parentheses")
  /\ (phase = "parse" /\ phase' = "eval") =>
        /\ ParenDepth(expr, 1, 0) = 0
        /\ \A j \in 1..Len(postfix') : postfix'[j] \notin {<<"(">>, <<")">>}

C9_Parens == [][C9_ParenStep]_vars

C9_Witness ==
  /\ phase = "parse"
  /\ expr = <<"(", "2", "+", "3", ")">>
  /\ i = 5
  /\ ops = << >>
  /\ postfix = << <<"2">>, <<"3">>, <<"+">> >>

\* The last character of e[1..n] that is not white space, "" when there is none.
RECURSIVE LastMeaningful(_, _)
LastMeaningful(e, n) ==
  IF n = 0 THEN ""
  ELSE IF isspace(e[n]) THEN LastMeaningful(e, n - 1) ELSE e[n]

\* C10: the parser expects an operand at the start, after '(' and after any
\* operator, and an operator after a numeral and after ')'; a binary operator
\* met while an operand is expected fails with "Unexpected operator", and a
\* line that ends while an operand is expected never yields a postfix sequence.
C10_OperandExpected ==
  /\ phase = "parse" =>
       LET c == LastMeaningful(expr, i)
       IN  /\ c \in {"", "("} \cup BinOps => expect_operand
           /\ c \in Digits \cup {")"} => ~expect_operand
  /\ (phase = "parse_error" /\ i < Len(expr) /\ expect_operand
        /\ expr[i + 1] \in {"+", "*", "/", "%", "^"}) =>
       err_msg = "Unexpected operator"
  /\ (Finished /\ LastMeaningful(expr, Len(expr)) \in BinOps) =>
       phase = "parse_error"

====
